---- MODULE Spec2Model ----
(***************************************************************************)
(* A model of the ICLR 2026 ratings crawler (src/fetch_ratings.py).        *)
(*                                                                         *)
(* The harvest: process_papers_batch submits one process_single_paper      *)
(* invocation per entry of the ID list to a ThreadPoolExecutor, collects   *)
(* the futures as they complete and paces itself with time.sleep.  Each    *)
(* invocation runs up to max_retries fetch cycles; each cycle is one       *)
(* session.get, inside which urllib3's Retry repeats the HTTP attempt.     *)
(*                                                                         *)
(* Python's None/Optional is modelled as a sequence of length 0 or 1.      *)
(* avg_rating is kept in hundredths (an integer), as round(x, 2) leaves    *)
(* two decimals.                                                           *)
(***************************************************************************)
EXTENDS Integers, Sequences, FiniteSets, TLC

\* ------------------------------------------------------------ bounds
\* Longest JSON file of paper records handed to load_paper_ids_from_json, and
\* most futures one crawler instance submits in its life, all runs together.
MaxPapers == 2
\* Most notes in one response body.
MaxNotes == 3
\* Most tokens in the free text of a note handed to the extractors on its own.
MaxTokens == 3
\* Most paper records in the list handed to filter_and_sort_papers.
MaxRows == 3

\* ------------------------------------------------------------ program constants
MAX_RETRIES == 3
PROCESS_MAX_RETRIES == 3
RATING_FLOOR == 0
RATING_CEIL == 10
TEXT_FLOOR == 1

RETRY_STATUS_FORCELIST == {500, 502, 503, 504, 429}

\* ------------------------------------------------------------ Optional
None == <<>>
Some(v) == <<v>>
IsNone(o) == o = <<>>
Val(o) == o[1]

\* ------------------------------------------------------------ sequences
Range(s) == {s[k] : k \in 1..Len(s)}

RECURSIVE SumSeq(_)
SumSeq(s) == IF s = <<>> THEN 0 ELSE Head(s) + SumSeq(Tail(s))

RECURSIVE MinSeq(_)
MinSeq(s) ==
  IF Len(s) = 1 THEN s[1]
  ELSE LET m == MinSeq(Tail(s)) IN IF s[1] <= m THEN s[1] ELSE m

RECURSIVE MaxSeq(_)
MaxSeq(s) ==
  IF Len(s) = 1 THEN s[1]
  ELSE LET m == MaxSeq(Tail(s)) IN IF s[1] >= m THEN s[1] ELSE m

RECURSIVE SeqsUpTo(_, _)
SeqsUpTo(S, n) ==
  IF n = 0 THEN {<<>>}
  ELSE LET shorter == SeqsUpTo(S, n - 1)
       IN shorter \cup {Append(s, x) : s \in {t \in shorter : Len(t) = n - 1}, x \in S}

Count(s, x) == Cardinality({k \in 1..Len(s) : s[k] = x})

\* round(mean(ratings), 2) in hundredths: a/n to the nearest integer, an exact
\* half going to the even neighbour (Python's round on a float that holds the
\* half exactly, which needs n to be a multiple of 8).
Round2(a, n) ==
  LET q == a \div n
      r == a % n
  IN IF 2 * r < n THEN q
     ELSE IF 2 * r > n THEN q + 1
     ELSE IF q % 2 = 0 THEN q ELSE q + 1

\* ------------------------------------------------------------ free text
\* A free text is a sequence of tokens [k, n]: a label ("Rating:" with an
\* ASCII colon, "RatingFW" with a full-width colon, "PingFen:" for the Chinese
\* label, "Overall", "Overall:", "Recommendation:"), a scale suffix ("/10",
\* "outof10"), a number ("num", n its value) or any other word ("word").
\* Matching is case-insensitive in the source, so a label token stands for
\* every casing of it.
Tok(k, n) == [k |-> k, n |-> n]

IsNum(text, j) == j >= 1 /\ j <= Len(text) /\ text[j].k = "num"

RATING_PATTERNS == 1..8

\* Whether pattern p matches text at token j, and the integer it captures.
PatternMatches(p, text, j) ==
  CASE p = 1 -> text[j].k = "Rating:" /\ IsNum(text, j + 1)
    [] p = 2 -> text[j].k = "PingFen:" /\ IsNum(text, j + 1)
    [] p = 3 -> text[j].k \in {"Rating:", "RatingFW"} /\ IsNum(text, j + 1)
    [] p = 4 -> text[j].k = "num" /\ j + 1 <= Len(text) /\ text[j + 1].k = "/10"
    [] p = 5 -> text[j].k = "num" /\ j + 1 <= Len(text) /\ text[j + 1].k = "outof10"
    [] p = 6 -> /\ text[j].k = "Overall"
                /\ j + 1 <= Len(text)
                /\ text[j + 1].k \in {"Rating:", "RatingFW"}
                /\ IsNum(text, j + 2)
    [] p = 7 -> text[j].k = "Overall:" /\ IsNum(text, j + 1)
    [] p = 8 -> text[j].k = "Recommendation:" /\ IsNum(text, j + 1)

PatternCapture(p, text, j) ==
  CASE p \in {4, 5} -> text[j].n
    [] p = 6 -> text[j + 2].n
    [] OTHER -> text[j + 1].n

\* re.findall(pattern, text, re.IGNORECASE): the captures, leftmost first.
FindAll(p, text) ==
  LET at == {j \in 1..Len(text) : PatternMatches(p, text, j)}
      RECURSIVE Caps(_)
      Caps(j) ==
        IF j > Len(text) THEN <<>>
        ELSE IF j \in at THEN <<PatternCapture(p, text, j)>> \o Caps(j + 1)
        ELSE Caps(j + 1)
  IN Caps(1)

\* re.findall(r'\b([1-9]|10)\b', text): the standalone numbers 1..10; the 10
\* of a "/10" or "out of 10" is one of them.
StandaloneNumbers(text) ==
  LET RECURSIVE Nums(_)
      Nums(j) ==
        IF j > Len(text) THEN <<>>
        ELSE IF text[j].k = "num" /\ text[j].n \in 1..10
             THEN <<text[j].n>> \o Nums(j + 1)
        ELSE IF text[j].k \in {"/10", "outof10"} THEN <<10>> \o Nums(j + 1)
        ELSE Nums(j + 1)
  IN Nums(1)

\* The pattern loop: a pattern whose first capture is out of range does not
\* return, and the loop goes on with the next pattern.
RECURSIVE PatternLoopFloorZero(_, _)
PatternLoopFloorZero(p, text) ==
  IF p \notin RATING_PATTERNS THEN None
  ELSE LET matches == FindAll(p, text)
       IN IF matches # <<>> /\ matches[1] >= RATING_FLOOR /\ matches[1] <= RATING_CEIL
          THEN Some(matches[1])
          ELSE PatternLoopFloorZero(p + 1, text)

RECURSIVE PatternLoop(_, _)
PatternLoop(p, text) ==
  IF p \notin RATING_PATTERNS THEN None
  ELSE LET matches == FindAll(p, text)
       IN IF matches # <<>> /\ matches[1] >= TEXT_FLOOR /\ matches[1] <= RATING_CEIL
          THEN Some(matches[1])
          ELSE PatternLoop(p + 1, text)

extract_rating_from_text(text) ==
  IF text = <<>> THEN None
  ELSE LET labelled == PatternLoop(1, text)
           numbers == StandaloneNumbers(text)
       IN IF ~IsNone(labelled) THEN labelled
          ELSE IF Len(numbers) = 1 THEN Some(numbers[1])
          ELSE None

\* ------------------------------------------------------------ review notes
\* A note's content: its "rating" field and its free text.  The rating field
\* is absent ("absent"), a bare integer ("int"), a mapping with an integer
\* under "value" ("dict"), a mapping without a value ("dictnone"), or a string,
\* bare ("str") or under "value" ("dictstr").
Field(kind, value) == [kind |-> kind, value |-> value]
Note(field, text) == [rating |-> field, text |-> text]

\* rating_value as the range test sees it: whether it is an int, and the int.
RatingValue(note) ==
  IF note.rating.kind \in {"int", "dict"}
  THEN [isint |-> TRUE, value |-> note.rating.value]
  ELSE [isint |-> FALSE, value |-> 0]

NoteRatingTextFirst(note) ==
  LET from_text == extract_rating_from_text(note.text)
      rating_value == RatingValue(note)
  IN IF ~IsNone(from_text) THEN <<Val(from_text)>>
     ELSE IF rating_value.isint /\ rating_value.value \in RATING_FLOOR..RATING_CEIL
     THEN <<rating_value.value>>
     ELSE <<>>

NoteRatingClamped(note) ==
  LET rating_value == RatingValue(note)
  IN IF ~rating_value.isint THEN <<>>
     ELSE IF rating_value.value < RATING_FLOOR THEN <<RATING_FLOOR>>
     ELSE IF rating_value.value > RATING_CEIL THEN <<RATING_CEIL>>
     ELSE <<rating_value.value>>

NoteRating(note) ==
  LET rating_value == RatingValue(note)
  IN IF /\ rating_value.isint
        /\ RATING_FLOOR <= rating_value.value
        /\ rating_value.value <= RATING_CEIL
     THEN <<rating_value.value>>
     ELSE <<>>

\* A decoded response body: an empty value ({} or []), a non-empty JSON array
\* ("list"), or a non-empty mapping ("dict") with or without a "notes" list.
Body(shape, has_notes, notes) == [shape |-> shape, has_notes |-> has_notes, notes |-> notes]

\* comments_data.get("notes", []) raises AttributeError on a list.
ExtractRaises(comments_data) == comments_data.shape = "list"

\* An extraction that puts each new score in front of the ones before it.
RECURSIVE RatingsOfNewestFirst(_)
RatingsOfNewestFirst(notes) ==
  IF notes = <<>> THEN <<>>
  ELSE RatingsOfNewestFirst(Tail(notes)) \o NoteRating(Head(notes))

RECURSIVE RatingsOf(_)
RatingsOf(notes) ==
  IF notes = <<>> THEN <<>>
  ELSE NoteRating(Head(notes)) \o RatingsOf(Tail(notes))

extract_ratings_from_comments(comments_data) ==
  LET notes == IF comments_data.has_notes THEN comments_data.notes ELSE <<>>
  IN RatingsOf(notes)

\* ------------------------------------------------------------ summaries
Mean2Truncated(ratings) == (100 * SumSeq(ratings)) \div Len(ratings)

Mean2(ratings) == Round2(100 * SumSeq(ratings), Len(ratings))

PaperRatingInfo(paper_id, ratings) ==
  IF ratings = <<>>
  THEN [paper_id |-> paper_id, ratings |-> <<>>, min_rating |-> None,
        max_rating |-> None, avg_rating |-> None, reviewer_count |-> 0]
  ELSE [paper_id |-> paper_id, ratings |-> ratings,
        min_rating |-> Some(MinSeq(ratings)),
        max_rating |-> Some(MaxSeq(ratings)),
        avg_rating |-> Some(Mean2(ratings)),
        reviewer_count |-> Len(ratings)]

\* ------------------------------------------------------------ the remote service
\* One HTTP attempt ends in a network error (timeout, reset: status 0) or in
\* a response with a status and, for a 200, a body: None when the body is not
\* JSON.
Response(kind, status, body) == [kind |-> kind, status |-> status, body |-> body]
NetErr == Response("neterr", 0, None)
Status(code) == Response("http", code, None)
Ok(body) == Response("http", 200, Some(body))
Malformed == Response("http", 200, None)

EmptyBody == Body("empty", FALSE, <<>>)
ListBody == Body("list", FALSE, <<>>)
NoNotesBody == Body("dict", FALSE, <<>>)
NotesBody(notes) == Body("dict", TRUE, notes)

NoText == <<>>
TextRating(n) == <<Tok("word", 0), Tok("Rating:", 0), Tok("num", n)>>
TextOutOf10(n) == <<Tok("num", n), Tok("/10", 0)>>
TextOverall(n) == <<Tok("Overall:", 0), Tok("num", n), Tok("word", 0)>>

\* The notes tried by the single-item specification.
NoteSamples ==
  { Note(Field("dict", 7), NoText),
    Note(Field("dict", 7), TextRating(3)),
    Note(Field("int", 0), NoText),
    Note(Field("dict", 10), NoText),
    Note(Field("dict", 11), NoText),
    Note(Field("int", -1), TextOverall(5)),
    Note(Field("absent", 0), TextRating(3)),
    Note(Field("dictstr", 8), TextOutOf10(8)),
    Note(Field("absent", 0), NoText) }

StatusSamples == {404, 429, 500, 501, 503}

ItemBodies ==
  {EmptyBody, ListBody, NoNotesBody} \cup {NotesBody(n) : n \in SeqsUpTo(NoteSamples, MaxNotes)}

ItemResponses ==
  {NetErr, Malformed} \cup {Status(c) : c \in StatusSamples} \cup {Ok(b) : b \in ItemBodies}

\* The responses tried by the harvest specification: one for each way a fetch
\* cycle can end (fetch_paper_comments returns None, the extraction raises, a
\* summary is built).  The retries inside session.get are left to the
\* single-item specification.
HarvestResponses ==
  { Status(404), Ok(ListBody), Ok(NotesBody(<<Note(Field("dict", 7), NoText)>>)) }

\* ------------------------------------------------------------ the input file
\* iclr26_all_papers.json: unreadable, or a list of records whose "paper_id"
\* is a string (possibly empty) or missing.
PaperIds == {"p1", "p2"}
FileEntries == {Some(id) : id \in PaperIds} \cup {Some(""), None}
Files ==
  {[readable |-> FALSE, papers |-> <<>>]}
    \cup {[readable |-> TRUE, papers |-> ps] : ps \in SeqsUpTo(FileEntries, MaxPapers)}

RECURSIVE TruthyIds(_)
TruthyIds(papers) ==
  IF papers = <<>> THEN <<>>
  ELSE LET paper_id == Head(papers)
       IN (IF ~IsNone(paper_id) /\ Val(paper_id) # "" THEN <<Val(paper_id)>> ELSE <<>>)
            \o TruthyIds(Tail(papers))

load_paper_ids_from_json(file) ==
  IF ~file.readable THEN <<>> ELSE TruthyIds(file.papers)

\* The pool sizes tried: a single thread, and a pool of two, which is smaller
\* than, equal to or larger than the list according to the list.
WorkerCounts == {1, 2}

\* ------------------------------------------------------------ state
VARIABLES
  max_workers,    \* self.max_workers
  failed_papers,  \* self.failed_papers
  paper_ids,      \* the ID list of the current (or last) process_papers_batch
  results,        \* process_papers_batch's results list, returned at its end
  cpc,            \* where the calling thread is: idle, submit, collect, pacing, returned,
                  \* or, after an interrupt, shutdown and interrupted
  submitted,      \* futures submitted so far, all runs taken together
  failed_before,  \* len(self.failed_papers) when the current run began
  task,           \* per submitted position: the future and its invocation's locals
  worker,         \* per pool thread: the position it is running, or 0
  saved,          \* the output file: None, or the list save_results wrote last
  exit_status,    \* what main returned: None while it runs
  previous,       \* the list the previous process_papers_batch returned, if any
  remote,         \* the mocked service's fixed answer per ID; empty without a mock
  arg,            \* the argument of a function called on its own, if any
  ret,            \* what that call returned, once it has
  wire            \* per position, where the traffic is logged: the status of the
                  \* latest HTTP answer and the number of HTTP attempts so far

vars ==
  <<max_workers, failed_papers, paper_ids, results, cpc, submitted, failed_before, task, worker,
    saved, exit_status, previous, remote, arg, ret, wire>>

\* What the pool threads and the as_completed loop never touch.
outside == <<saved, exit_status, previous, remote, arg, ret, wire>>

Tasks == DOMAIN task
Workers == DOMAIN worker

\* A position before executor.submit.
NewTask ==
  [ st |-> "unsubmitted",  \* unsubmitted, queued, running, done
    starts |-> 0,          \* times a pool thread has begun the invocation
    pc |-> "-",            \* of a running invocation: fetch, backoff
    attempt |-> 0,         \* the for loop's attempt
    hretry |-> 0,          \* retries urllib3 has made inside the current session.get
    data |-> None,         \* comments_data of the cycle just ended
    why |-> "",            \* how the cycle just ended failed
    only503 |-> TRUE,      \* every HTTP attempt so far answered 503
    outcome |-> "",        \* of the future: summary, none, raised
    result |-> None,       \* the PaperRatingInfo returned
    recorded |-> FALSE,    \* as_completed has yielded the future
    cut |-> FALSE ]        \* the invocation had not completed when an interrupt arrived

\* A crawler just constructed, main not yet past its first statement.
InitCrawler ==
  /\ max_workers \in WorkerCounts
  /\ failed_papers = <<>>
  /\ paper_ids = <<>>
  /\ results = <<>>
  /\ cpc = "idle"
  /\ submitted = 0
  /\ failed_before = 0
  /\ task = <<>>
  /\ worker = [w \in 1..max_workers |-> 0]
  /\ saved = None
  /\ exit_status = None
  /\ previous = None

NoCall == arg = None /\ ret = None /\ wire = <<>>

Init == InitCrawler /\ remote = <<>> /\ NoCall

\* ------------------------------------------------------------ run and submit
\* run(paper_ids) on the IDs loaded from a file.  An empty list returns at
\* once, before process_papers_batch is called; otherwise process_papers_batch
\* starts with a fresh results list and a future still to submit for every
\* position of the list.
RunWithNoGuard(file) ==
  LET ids == load_paper_ids_from_json(file)
  IN /\ cpc \in {"idle", "returned"}
     /\ cpc' = IF ids = <<>> THEN "returned" ELSE "submit"
     /\ exit_status' = IF ids = <<>> THEN Some(0) ELSE None
     /\ paper_ids' = ids
     /\ failed_before' = Len(failed_papers)
     /\ task' = [i \in 1..Len(ids) |-> NewTask]
     /\ results' = <<>>
     /\ previous' = IF cpc = "returned" THEN Some(results) ELSE previous
     /\ UNCHANGED <<max_workers, failed_papers, submitted, worker, saved, remote, arg, ret, wire>>

\* A run that starts its harvest with an empty failure list.
RunWithFreshFailures(file) ==
  LET ids == load_paper_ids_from_json(file)
  IN /\ cpc \in {"idle", "returned"}
     /\ IF ids = <<>>
        THEN /\ cpc' = "idle"
             /\ exit_status' = Some(1)
             /\ UNCHANGED <<paper_ids, failed_before, task, results, previous, failed_papers>>
        ELSE /\ cpc' = "submit"
             /\ exit_status' = None
             /\ paper_ids' = ids
             /\ failed_papers' = <<>>
             /\ failed_before' = 0
             /\ task' = [i \in 1..Len(ids) |-> NewTask]
             /\ results' = <<>>
             /\ previous' = IF cpc = "returned" THEN Some(results) ELSE previous
     /\ UNCHANGED <<max_workers, submitted, worker, saved, remote, arg, ret, wire>>

RunWith(file) ==
  LET ids == load_paper_ids_from_json(file)
  IN /\ cpc \in {"idle", "returned"}
     /\ IF ids = <<>>
        THEN /\ cpc' = "idle"
             /\ exit_status' = Some(1)
             /\ UNCHANGED <<paper_ids, failed_before, task, results, previous>>
        ELSE /\ cpc' = "submit"
             /\ exit_status' = None
             /\ paper_ids' = ids
             /\ failed_before' = Len(failed_papers)
             /\ task' = [i \in 1..Len(ids) |-> NewTask]
             /\ results' = <<>>
             /\ previous' = IF cpc = "returned" THEN Some(results) ELSE previous
     /\ UNCHANGED <<max_workers, failed_papers, submitted, worker, saved, remote, arg, ret, wire>>

Run ==
  /\ cpc \in {"idle", "returned"}
  /\ \E file \in Files :
       /\ submitted + Len(load_paper_ids_from_json(file)) <= MaxPapers
       /\ RunWith(file)

\* executor.submit for the next position of the list; after the last one the
\* caller enters the as_completed loop.
Submit ==
  /\ cpc = "submit"
  /\ LET i == CHOOSE j \in Tasks : task[j].st = "unsubmitted" /\
                                   \A k \in 1..(j - 1) : task[k].st # "unsubmitted"
     IN /\ task' = [task EXCEPT ![i].st = "queued"]
        /\ cpc' = IF i = Len(paper_ids) THEN "collect" ELSE "submit"
  /\ submitted' = submitted + 1
  /\ UNCHANGED <<max_workers, failed_papers, paper_ids, results, failed_before, worker, outside>>

\* ------------------------------------------------------------ the pool
\* An idle pool thread takes the oldest queued work item and calls
\* process_single_paper, which enters its first fetch cycle.  The pool's
\* threads are interchangeable: the idle one of least index stands for any.
CanStartBusy(w, i) ==
  /\ task[i].st = "queued"
  /\ \A k \in 1..(i - 1) : task[k].st # "queued"

CanStart(w, i) ==
  /\ worker[w] = 0
  /\ \A v \in 1..(w - 1) : worker[v] # 0
  /\ task[i].st = "queued"
  /\ \A k \in 1..(i - 1) : task[k].st # "queued"

StartTask(w, i) ==
  /\ CanStart(w, i)
  /\ worker' = [worker EXCEPT ![w] = i]
  /\ task' = [task EXCEPT ![i].st = "running", ![i].pc = "fetch",
                          ![i].starts = task[i].starts + 1]
  /\ UNCHANGED <<max_workers, failed_papers, paper_ids, results, cpc, submitted, failed_before,
                  outside>>

\* ------------------------------------------------------------ fetch_paper_comments
\* A retry policy that treats every 5xx status as transient.
RetryableAnyServerError(r) ==
  r.kind = "neterr" \/ r.status = 429 \/ (r.status >= 500 /\ r.status <= 599)

\* What urllib3's Retry does with one HTTP attempt.
Retryable(r) == r.kind = "neterr" \/ r.status \in RETRY_STATUS_FORCELIST

\* What fetch_paper_comments returns once session.get is over, and why it
\* returned None: [data, why].
FetchReturnSwallowed(r) ==
  IF Retryable(r) THEN [data |-> Some(NoNotesBody), why |-> ""]
  ELSE IF r.status >= 400 THEN [data |-> None, why |-> "http4xx"]
  ELSE IF IsNone(r.body) THEN [data |-> None, why |-> "malformed"]
  ELSE [data |-> r.body, why |-> ""]

FetchReturn(r) ==
  IF Retryable(r) THEN [data |-> None, why |-> "exhausted"]
  ELSE IF r.status >= 400 /\ r.status < 500 THEN [data |-> None, why |-> "http4xx"]
  ELSE IF r.status >= 500 THEN [data |-> None, why |-> "http5xx"]
  ELSE IF IsNone(r.body) THEN [data |-> None, why |-> "malformed"]
  ELSE [data |-> r.body, why |-> ""]

\* ------------------------------------------------------------ process_single_paper
\* The rest of one cycle once fetch_paper_comments has returned: [next, why,
\* result] with next one of backoff, none, raised, summary.
LastAttemptLate(attempt) == ~(attempt < PROCESS_MAX_RETRIES)

LastAttempt(attempt) == ~(attempt < PROCESS_MAX_RETRIES - 1)

\* A test that fails on None alone ("is None" instead of "not").
FalsyNoneOnly(data) == IsNone(data)

Falsy(data) == IsNone(data) \/ Val(data).shape = "empty"

CycleEndNoRefetch(paper_id, attempt, fetched, escapes) ==
  IF Falsy(fetched.data)
  THEN [ next |-> IF LastAttempt(attempt) THEN "none" ELSE "backoff",
         why |-> IF IsNone(fetched.data) THEN fetched.why ELSE "empty",
         result |-> None ]
  ELSE IF ExtractRaises(Val(fetched.data))
  THEN [ next |-> IF escapes THEN "raised" ELSE "none",
         why |-> "raised",
         result |-> None ]
  ELSE [ next |-> "summary",
         why |-> "",
         result |-> Some(PaperRatingInfo(paper_id,
                           extract_ratings_from_comments(Val(fetched.data)))) ]

CycleEndLeaky(paper_id, attempt, fetched, escapes) ==
  IF Falsy(fetched.data)
  THEN [ next |-> IF LastAttempt(attempt) THEN "none" ELSE "backoff",
         why |-> IF IsNone(fetched.data) THEN fetched.why ELSE "empty",
         result |-> None ]
  ELSE IF ExtractRaises(Val(fetched.data)) /\ ~escapes
  THEN [ next |-> IF LastAttempt(attempt) THEN "none" ELSE "backoff",
         why |-> "raised",
         result |-> None ]
  ELSE [ next |-> "summary",
         why |-> "",
         result |-> Some(PaperRatingInfo(paper_id,
                           extract_ratings_from_comments(Val(fetched.data)))) ]

\* escapes: a statement of the except handler itself raises, so the exception
\* leaves process_single_paper and the future carries it to the coordinator.
CycleEnd(paper_id, attempt, fetched, escapes) ==
  IF Falsy(fetched.data)
  THEN [ next |-> IF LastAttempt(attempt) THEN "none" ELSE "backoff",
         why |-> IF IsNone(fetched.data) THEN fetched.why ELSE "empty",
         result |-> None ]
  ELSE IF ExtractRaises(Val(fetched.data))
  THEN [ next |-> IF escapes THEN "raised"
                  ELSE IF LastAttempt(attempt) THEN "none" ELSE "backoff",
         why |-> "raised",
         result |-> None ]
  ELSE [ next |-> "summary",
         why |-> "",
         result |-> Some(PaperRatingInfo(paper_id,
                           extract_ratings_from_comments(Val(fetched.data)))) ]

\* Position i's invocation is inside session.get.
Fetching(i) == task[i].st = "running" /\ task[i].pc = "fetch"

\* One HTTP attempt of position i's session.get answers r.  urllib3 retries
\* it, or session.get is over and the cycle runs to its end: a backoff sleep,
\* or the return that completes the future and frees the pool thread.
Http(i, r, escapes) ==
  /\ Fetching(i)
  /\ LET t == task[i]
         seen == [t EXCEPT !.only503 = t.only503 /\ r.kind = "http" /\ r.status = 503]
     IN IF Retryable(r) /\ t.hretry < MAX_RETRIES
        THEN /\ task' = [task EXCEPT ![i] = [seen EXCEPT !.hretry = t.hretry + 1]]
             /\ UNCHANGED worker
        ELSE LET fetched == FetchReturn(r)
                 end == CycleEnd(paper_ids[i], t.attempt, fetched, escapes)
                 after == [seen EXCEPT !.hretry = 0, !.data = fetched.data, !.why = end.why]
             IN IF end.next = "backoff"
                THEN /\ task' = [task EXCEPT ![i] = [after EXCEPT !.pc = "backoff"]]
                     /\ UNCHANGED worker
                ELSE /\ task' = [task EXCEPT ![i] =
                                   [after EXCEPT !.st = "done", !.pc = "-",
                                                 !.outcome = end.next,
                                                 !.result = end.result]]
                     /\ worker' = [w \in Workers |-> IF worker[w] = i THEN 0 ELSE worker[w]]
  /\ UNCHANGED <<max_workers, failed_papers, paper_ids, results, cpc, submitted, failed_before,
                  saved, exit_status, previous, remote, arg, ret>>

\* An HTTP attempt of position i answers with some response of the set R.
HttpAny(i, R) ==
  /\ Fetching(i)
  /\ \E r \in R, escapes \in BOOLEAN : Http(i, r, escapes)
  /\ UNCHANGED wire

\* The same, with the traffic logged.
Logged(i, r) ==
  [k \in Tasks |->
     LET before == IF k \in DOMAIN wire THEN wire[k] ELSE [last |-> 0, https |-> 0]
     IN IF k = i THEN [last |-> r.status, https |-> before.https + 1] ELSE before]

HttpLogged(i, R) ==
  /\ Fetching(i)
  /\ \E r \in R, escapes \in BOOLEAN : Http(i, r, escapes) /\ wire' = Logged(i, r)

\* time.sleep(wait_time) returns and the for loop starts the next attempt.
BackoffDone(i) ==
  /\ task[i].st = "running"
  /\ task[i].pc = "backoff"
  /\ task' = [task EXCEPT ![i].pc = "fetch", ![i].attempt = task[i].attempt + 1,
                          ![i].data = None, ![i].why = ""]
  /\ UNCHANGED <<max_workers, failed_papers, paper_ids, results, cpc, submitted, failed_before,
                  worker, outside>>

\* ------------------------------------------------------------ the as_completed loop
\* as_completed yields a finished future; its result goes to results, a None
\* or an exception sends its ID to failed_papers; then time.sleep(self.delay).
YieldsAgain(i) == task[i].st = "done"

YieldsInOrder(i) ==
  /\ task[i].st = "done"
  /\ ~task[i].recorded
  /\ \A k \in 1..(i - 1) : task[k].recorded

\* An iterator that hands over only the futures that returned a summary.
YieldsSummariesOnly(i) ==
  task[i].st = "done" /\ ~task[i].recorded /\ task[i].outcome = "summary"

Yields(i) == task[i].st = "done" /\ ~task[i].recorded

\* future.result() returned a value and "if result" took it as true (a
\* PaperRatingInfo is always truthy, None never).
SucceededWithRatings(t) == t.outcome = "summary" /\ Val(t.result).ratings # <<>>

Succeeded(t) == t.outcome = "summary"

CollectDropsRaised(i) ==
  /\ cpc = "collect"
  /\ Yields(i)
  /\ IF Succeeded(task[i])
     THEN /\ results' = Append(results, Val(task[i].result))
          /\ UNCHANGED failed_papers
     ELSE /\ failed_papers' = IF task[i].outcome = "raised" THEN failed_papers
                               ELSE Append(failed_papers, paper_ids[i])
          /\ UNCHANGED results
  /\ task' = [task EXCEPT ![i].recorded = TRUE]
  /\ cpc' = "pacing"
  /\ UNCHANGED <<max_workers, paper_ids, submitted, failed_before, worker, outside>>

\* Two completions handled at the same time, unserialized: both futures
\* count as handled and one append is lost.
CollectRacing(i) ==
  /\ cpc = "collect"
  /\ Yields(i)
  /\ IF Succeeded(task[i])
     THEN /\ results' = Append(results, Val(task[i].result))
          /\ UNCHANGED failed_papers
     ELSE /\ failed_papers' = Append(failed_papers, paper_ids[i])
          /\ UNCHANGED results
  /\ task' = [k \in DOMAIN task |->
                IF Yields(k) THEN [task[k] EXCEPT !.recorded = TRUE] ELSE task[k]]
  /\ cpc' = "pacing"
  /\ UNCHANGED <<max_workers, paper_ids, submitted, failed_before, worker, outside>>

Collect(i) ==
  /\ cpc = "collect"
  /\ Yields(i)
  /\ IF Succeeded(task[i])
     THEN /\ results' = Append(results, Val(task[i].result))
          /\ UNCHANGED failed_papers
     ELSE /\ failed_papers' = Append(failed_papers, paper_ids[i])
          /\ UNCHANGED results
  /\ task' = [task EXCEPT ![i].recorded = TRUE]
  /\ cpc' = "pacing"
  /\ UNCHANGED <<max_workers, paper_ids, submitted, failed_before, worker, outside>>

\* The pacing sleep is over: the loop waits for the next future, or, every
\* future yielded, the with block ends and results is returned to run, which
\* saves a non-empty list and returns to main, which returns 0.
PacingDone ==
  /\ cpc = "pacing"
  /\ IF \A i \in Tasks : task[i].recorded
     THEN /\ cpc' = "returned"
          /\ saved' = IF results # <<>> THEN Some(results) ELSE saved
          /\ exit_status' = Some(0)
     ELSE /\ cpc' = "collect"
          /\ UNCHANGED <<saved, exit_status>>
  /\ UNCHANGED <<max_workers, failed_papers, paper_ids, results, submitted, failed_before, task,
                  worker, previous, remote, arg, ret, wire>>

\* ------------------------------------------------------------ specifications
Next ==
  \/ Run
  \/ Submit
  \/ \E w \in Workers, i \in Tasks : StartTask(w, i)
  \/ \E i \in Tasks : HttpAny(i, HarvestResponses)
  \/ \E i \in Tasks : BackoffDone(i)
  \/ \E i \in Tasks : Collect(i)
  \/ PacingDone

Spec == Init /\ [][Next]_vars

\* One item, one call, every response of ItemResponses.
OneItemFile == [readable |-> TRUE, papers |-> <<Some("p1")>>]

RunItem == cpc = "idle" /\ submitted = 0 /\ RunWith(OneItemFile)

InitItem == Init /\ max_workers = 1

NextItem ==
  \/ RunItem
  \/ Submit
  \/ \E w \in Workers, i \in Tasks : StartTask(w, i)
  \/ \E i \in Tasks : HttpAny(i, ItemResponses)
  \/ \E i \in Tasks : BackoffDone(i)
  \/ \E i \in Tasks : Collect(i)
  \/ PacingDone

SpecItem == InitItem /\ [][NextItem]_vars

\* One item under every sequence of fetch outcomes, one response standing
\* for each way an HTTP attempt and a fetch cycle can go.  The pool thread that
\* runs the invocation keeps running: every HTTP attempt is answered or times
\* out, and every backoff sleep ends.
CycleResponses ==
  { NetErr, Status(429), Status(500), Status(503), Status(404), Status(501), Malformed,
    Ok(EmptyBody), Ok(ListBody), Ok(NoNotesBody),
    Ok(NotesBody(<<Note(Field("dict", 7), NoText)>>)),
    Ok(NotesBody(<<Note(Field("int", 0), TextRating(3)), Note(Field("dict", 11), NoText)>>)) }

NextCycles ==
  \/ RunItem
  \/ Submit
  \/ \E w \in Workers, i \in Tasks : StartTask(w, i)
  \/ \E i \in Tasks : HttpLogged(i, CycleResponses)
  \/ \E i \in Tasks : BackoffDone(i)
  \/ \E i \in Tasks : Collect(i)
  \/ PacingDone

FairCycles ==
  /\ WF_vars(1 \in Tasks /\ HttpLogged(1, CycleResponses))
  /\ WF_vars(1 \in Tasks /\ BackoffDone(1))

SpecCycles == Init /\ [][NextCycles]_vars /\ FairCycles

\* main calls run once.
RunOnce == submitted = 0 /\ Run

\* One harvest by a pool of two in which the fetch of the first position may
\* stall: every thread but the one inside that position's session.get keeps
\* running, and every other request is answered, with a failure or with a
\* thread of notes.  The lists tried are those of 1 to MaxPapers IDs, which
\* IDs they are making no difference to the pool.
StallFiles ==
  {[readable |-> TRUE, papers |-> [k \in 1..n |-> Some(IF k % 2 = 1 THEN "p1" ELSE "p2")]] :
     n \in 1..MaxPapers}

StallResponses == {Status(404), Ok(NotesBody(<<Note(Field("dict", 7), NoText)>>))}

RunStall == cpc = "idle" /\ submitted = 0 /\ \E file \in StallFiles : RunWith(file)

InitStall == Init /\ max_workers = 2

NextStall ==
  \/ RunStall
  \/ Submit
  \/ \E w \in Workers, i \in Tasks : StartTask(w, i)
  \/ \E i \in Tasks : HttpAny(i, StallResponses)
  \/ \E i \in Tasks : BackoffDone(i)
  \/ \E i \in Tasks : Collect(i)
  \/ PacingDone

FairButStalled ==
  /\ WF_vars(Submit)
  /\ WF_vars(PacingDone)
  /\ \A i \in 1..MaxPapers :
       /\ WF_vars(i \in Tasks /\ \E w \in Workers : StartTask(w, i))
       /\ WF_vars(i \in Tasks /\ BackoffDone(i))
       /\ WF_vars(i \in Tasks /\ Collect(i))
  /\ \A i \in 2..MaxPapers : WF_vars(i \in Tasks /\ HttpAny(i, StallResponses))

SpecStall == InitStall /\ [][NextStall]_vars /\ FairButStalled

\* One harvest, by a pool of one or of two, in which every HTTP attempt is
\* answered in the end (timeout=30 bounds each one) and every sleep ends: the
\* answers are a failure, a body on which the extraction raises, and a thread
\* without notes (the retries inside session.get are left to the
\* specification of the cycles).
AnsweredResponses == {Status(404), Ok(ListBody), Ok(NoNotesBody)}

NextAnswered ==
  \/ RunStall
  \/ Submit
  \/ \E w \in Workers, i \in Tasks : StartTask(w, i)
  \/ \E i \in Tasks : HttpAny(i, AnsweredResponses)
  \/ \E i \in Tasks : BackoffDone(i)
  \/ \E i \in Tasks : Collect(i)
  \/ PacingDone

\* The calling thread keeps running (it submits, handles a finished future,
\* or ends its pacing sleep), and so does the work of every position: the pool
\* starts it when a thread is free, its HTTP attempt is answered, its sleep
\* ends.
CallerStep == Submit \/ PacingDone \/ \E i \in Tasks : Collect(i)

ItemStep(i) ==
  \/ \E w \in Workers : StartTask(w, i)
  \/ HttpAny(i, AnsweredResponses)
  \/ BackoffDone(i)

FairAnswered ==
  /\ WF_vars(CallerStep)
  /\ \A i \in 1..MaxPapers : WF_vars(i \in Tasks /\ ItemStep(i))

SpecAnswered == Init /\ [][NextAnswered]_vars /\ FairAnswered

\* KeyboardInterrupt reaches the calling thread inside process_papers_batch.
\* The with block's exit is executor.shutdown(wait=True): the pool finishes
\* everything submitted, queued work included, and nothing is collected any
\* more.
Interrupt ==
  /\ cpc \in {"submit", "collect", "pacing"}
  /\ cpc' = "shutdown"
  /\ task' = [i \in Tasks |-> [task[i] EXCEPT !.cut = task[i].st # "done"]]
  /\ UNCHANGED <<max_workers, failed_papers, paper_ids, results, submitted, failed_before,
                  worker, outside>>

\* The pool has drained; the exception leaves run, which saves nothing, and
\* main's handler returns 1.
ShutdownDone ==
  /\ cpc = "shutdown"
  /\ \A i \in Tasks : task[i].st \in {"unsubmitted", "done"}
  /\ cpc' = "interrupted"
  /\ exit_status' = Some(1)
  /\ UNCHANGED <<max_workers, failed_papers, paper_ids, results, submitted, failed_before,
                  task, worker, saved, previous, remote, arg, ret, wire>>

NextAbort ==
  \/ RunOnce
  \/ Submit
  \/ \E w \in Workers, i \in Tasks : StartTask(w, i)
  \/ \E i \in Tasks : HttpAny(i, HarvestResponses)
  \/ \E i \in Tasks : BackoffDone(i)
  \/ \E i \in Tasks : Collect(i)
  \/ PacingDone
  \/ Interrupt
  \/ ShutdownDone

SpecAbort == Init /\ [][NextAbort]_vars

\* Two harvests of one crawler over the same list, against a service that
\* answers every request for an ID with the same response.
FixedResponses ==
  { Status(404), Status(503), Ok(EmptyBody), Ok(ListBody),
    Ok(NotesBody(<<Note(Field("dict", 7), NoText)>>)),
    Ok(NotesBody(<<Note(Field("int", 0), TextRating(3)), Note(Field("dict", 8), NoText),
                   Note(Field("dict", 8), NoText)>>)) }

InitFixed == InitCrawler /\ NoCall /\ remote \in [PaperIds -> FixedResponses]

HttpFixed(i) ==
  /\ Fetching(i)
  /\ \E escapes \in BOOLEAN : Http(i, remote[paper_ids[i]], escapes)
  /\ UNCHANGED wire

SameListFile == [readable |-> TRUE, papers |-> [k \in 1..Len(paper_ids) |-> Some(paper_ids[k])]]

RunAgain == cpc = "returned" /\ IsNone(previous) /\ RunWith(SameListFile)

NextFixed ==
  \/ RunOnce
  \/ RunAgain
  \/ Submit
  \/ \E w \in Workers, i \in Tasks : StartTask(w, i)
  \/ \E i \in Tasks : HttpFixed(i)
  \/ \E i \in Tasks : BackoffDone(i)
  \/ \E i \in Tasks : Collect(i)
  \/ PacingDone

SpecFixed == InitFixed /\ [][NextFixed]_vars

\* ------------------------------------------------------------ the extractors alone
\* One review note handed to both extraction paths: its free text to
\* extract_rating_from_text, the note itself, as the only note of a thread,
\* to extract_ratings_from_comments.
TokenSamples ==
  { Tok("word", 0), Tok("Rating:", 0), Tok("Overall:", 0), Tok("/10", 0),
    Tok("num", 0), Tok("num", 3), Tok("num", 10), Tok("num", 11) }

Texts == SeqsUpTo(TokenSamples, MaxTokens)

FieldSamples == {Field("absent", 0), Field("int", 0), Field("dict", 0), Field("dict", 7)}

NoteCalls == {Note(f, t) : f \in FieldSamples, t \in Texts}

InitText ==
  /\ InitCrawler
  /\ max_workers = 1
  /\ remote = <<>>
  /\ arg \in {Some(note) : note \in NoteCalls}
  /\ ret = None
  /\ wire = <<>>

ExtractNote ==
  /\ ~IsNone(arg)
  /\ IsNone(ret)
  /\ ret' = Some([ from_text |-> extract_rating_from_text(Val(arg).text),
                   ratings |-> extract_ratings_from_comments(NotesBody(<<Val(arg)>>)) ])
  /\ UNCHANGED <<max_workers, failed_papers, paper_ids, results, cpc, submitted, failed_before,
                  task, worker, saved, exit_status, previous, remote, arg, wire>>

NextText == ExtractNote

SpecText == InitText /\ [][NextText]_vars

\* ------------------------------------------------------------ filter_high_rated_papers.py
\* A paper record of iclr26_all_papers_with_ratings.json: its paper_id and its
\* avg_rating (in hundredths) and min_rating entries, each a missing key
\* ("missing"), a null ("null") or a number ("num").
Entry(kind, value) == [kind |-> kind, value |-> value]
Paper(paper_id, avg_rating, min_rating) ==
  [paper_id |-> paper_id, avg_rating |-> avg_rating, min_rating |-> min_rating]

HasValue(entry) == ~(entry.kind = "missing" \/ entry.kind = "null")

QualifiesNullAsZero(paper, min_avg_rating, min_min_rating) ==
  LET avg_rating == IF HasValue(paper.avg_rating) THEN paper.avg_rating.value ELSE 0
      min_rating == IF HasValue(paper.min_rating) THEN paper.min_rating.value ELSE 0
  IN avg_rating >= min_avg_rating /\ min_rating >= min_min_rating

\* The body of the for loop: whether the paper is appended.
Qualifies(paper, min_avg_rating, min_min_rating) ==
  IF ~HasValue(paper.avg_rating) THEN FALSE
  ELSE IF ~HasValue(paper.min_rating) THEN FALSE
  ELSE /\ paper.avg_rating.value >= min_avg_rating
       /\ paper.min_rating.value >= min_min_rating

RECURSIVE FilterPapers(_, _, _)
FilterPapers(papers_data, min_avg_rating, min_min_rating) ==
  IF papers_data = <<>> THEN <<>>
  ELSE (IF Qualifies(Head(papers_data), min_avg_rating, min_min_rating)
        THEN <<Head(papers_data)>> ELSE <<>>)
         \o FilterPapers(Tail(papers_data), min_avg_rating, min_min_rating)

\* list.sort(key=avg_rating, reverse=True): a stable sort, so a paper goes
\* behind every paper before it whose average is not smaller.
RECURSIVE InsertByAvg(_, _)
InsertByAvg(sorted, paper) ==
  IF sorted = <<>> THEN <<paper>>
  ELSE IF Head(sorted).avg_rating.value >= paper.avg_rating.value
       THEN <<Head(sorted)>> \o InsertByAvg(Tail(sorted), paper)
       ELSE <<paper>> \o sorted

RECURSIVE SortByAvgDescending(_)
SortByAvgDescending(papers) ==
  IF papers = <<>> THEN <<>>
  ELSE InsertByAvg(SortByAvgDescending(SubSeq(papers, 1, Len(papers) - 1)), papers[Len(papers)])

filter_and_sort_papers(papers_data, min_avg_rating, min_min_rating) ==
  SortByAvgDescending(FilterPapers(papers_data, min_avg_rating, min_min_rating))

PaperSamples ==
  { Paper("a", Entry("num", 650), Entry("num", 6)),
    Paper("b", Entry("num", 725), Entry("num", 5)),
    Paper("c", Entry("num", 650), Entry("num", 4)),
    Paper("d", Entry("num", 575), Entry("num", 5)),
    Paper("e", Entry("null", 0), Entry("null", 0)),
    Paper("f", Entry("missing", 0), Entry("num", 8)),
    Paper("g", Entry("num", 0), Entry("num", 0)) }

\* The thresholds tried, [min_avg_rating (in hundredths), min_min_rating]: the
\* defaults 6 and 5, and 0 and 0.
ThresholdSamples == {<<600, 5>>, <<0, 0>>}

FilterCalls ==
  {[papers_data |-> ps, min_avg_rating |-> th[1], min_min_rating |-> th[2]] :
     ps \in SeqsUpTo(PaperSamples, MaxRows), th \in ThresholdSamples}

InitFilter ==
  /\ InitCrawler
  /\ max_workers = 1
  /\ remote = <<>>
  /\ arg \in {Some(call) : call \in FilterCalls}
  /\ ret = None
  /\ wire = <<>>

FilterAndSort ==
  /\ ~IsNone(arg)
  /\ IsNone(ret)
  /\ ret' = Some(filter_and_sort_papers(Val(arg).papers_data, Val(arg).min_avg_rating,
                                        Val(arg).min_min_rating))
  /\ UNCHANGED <<max_workers, failed_papers, paper_ids, results, cpc, submitted, failed_before,
                  task, worker, saved, exit_status, previous, remote, arg, wire>>

NextFilter == FilterAndSort

SpecFilter == InitFilter /\ [][NextFilter]_vars

\* ------------------------------------------------------------ what is recorded
NoDuplicates(s) == \A j, k \in 1..Len(s) : j # k => s[j] # s[k]

SuccessIds == {results[k].paper_id : k \in 1..Len(results)}
FailedIds == Range(failed_papers)

\* The IDs this run has appended to failed_papers.
FailedNow == SubSeq(failed_papers, failed_before + 1, Len(failed_papers))

\* The records this run has emitted for an ID, successes and failures.
Emitted(id) ==
  Cardinality({k \in 1..Len(results) : results[k].paper_id = id}) + Count(FailedNow, id)

\* The invocations begun for an ID in this run.
Processed(id) ==
  LET RECURSIVE Starts(_)
      Starts(i) ==
        IF i = 0 THEN 0
        ELSE (IF paper_ids[i] = id THEN task[i].starts ELSE 0) + Starts(i - 1)
  IN Starts(Len(task))

InFlight == {i \in Tasks : task[i].st = "running"}

\* ------------------------------------------------------------ C1
\* C1 (as claimed): when process_papers_batch returns for a list of distinct
\* IDs, the returned summaries and failed_papers together hold as many records
\* as the list has IDs, and every ID of the list is in exactly one of the two.
C1_Partition ==
  (cpc = "returned" /\ NoDuplicates(paper_ids)) =>
    /\ Len(results) + Len(failed_papers) = Len(paper_ids)
    /\ \A k \in 1..Len(paper_ids) :
         (paper_ids[k] \in SuccessIds) # (paper_ids[k] \in FailedIds)

\* ------------------------------------------------------------ C2
\* C2 (as claimed): during one harvest no ID is processed more than once and
\* no ID gets two records, whatever list load_paper_ids_from_json hands over.
C2_AtMostOncePerId ==
  \A id \in PaperIds : Processed(id) <= 1 /\ Emitted(id) <= 1

\* C2 (amended): one invocation is begun, and one record emitted, per position
\* of the list: an ID that occurs k times in the list is processed at most k
\* times and gets at most k records, exactly k once the harvest has returned,
\* and no position is begun twice.
C2_OncePerPosition ==
  /\ \A i \in Tasks : task[i].starts <= 1
  /\ \A id \in PaperIds :
       /\ Processed(id) <= Count(paper_ids, id)
       /\ Emitted(id) <= Processed(id)
       /\ cpc = "returned" =>
            Emitted(id) = Count(paper_ids, id) /\ Processed(id) = Count(paper_ids, id)

\* A harvest over a list with a repeated ID has returned.
C2_Witness ==
  /\ cpc = "returned"
  /\ \E id \in PaperIds : Count(paper_ids, id) = 2 /\ Emitted(id) = 2

\* ------------------------------------------------------------ C3
\* C3: at most max_workers invocations are in flight; every invocation in
\* flight is held by exactly one pool thread and a pool thread holds nothing
\* but an invocation in flight, so it takes the next one only after the one
\* it holds has completed.
C3_BoundedPool ==
  /\ Cardinality(InFlight) <= max_workers
  /\ \A i \in InFlight : Cardinality({w \in Workers : worker[w] = i}) = 1
  /\ \A w \in Workers : worker[w] # 0 => worker[w] \in InFlight

\* The pool is full while a submitted invocation waits in the queue.
C3_Witness ==
  /\ Cardinality(InFlight) = max_workers
  /\ \E i \in Tasks : task[i].st = "queued"

\* ------------------------------------------------------------ per item
Done(i) == task[i].st = "done"
Summarised(i) == Done(i) /\ task[i].outcome = "summary"

\* The notes of the thread the invocation's last fetch returned.
NotesOf(i) ==
  LET data == task[i].data
  IN IF ~IsNone(data) /\ Val(data).has_notes THEN Val(data).notes ELSE <<>>

\* The note's rating field is an integer, bare or under "value", within 0..10.
StructuredValid(note) ==
  note.rating.kind \in {"int", "dict"} /\ note.rating.value >= 0 /\ note.rating.value <= 10

\* The note's rating field is an integer outside 0..10.
OutOfRange(note) ==
  note.rating.kind \in {"int", "dict"} /\ (note.rating.value < 0 \/ note.rating.value > 10)

\* Neither the rating field nor the free text of the note gives a score.
Unrated(note) == ~StructuredValid(note) /\ IsNone(extract_rating_from_text(note.text))

Abs(x) == IF x < 0 THEN -x ELSE x

\* ------------------------------------------------------------ C4
\* C4: an invocation all of whose HTTP attempts answered 503 ends with None in
\* its last allowed cycle; once collected its ID is in failed_papers, and no
\* summary of it is in results.
C4_RetryExhaustion ==
  \A i \in Tasks :
    (Done(i) /\ task[i].only503) =>
      /\ task[i].outcome = "none"
      /\ task[i].attempt = 2
      /\ paper_ids[i] \notin SuccessIds
      /\ task[i].recorded => Count(FailedNow, paper_ids[i]) = 1

\* A paper whose every HTTP answer was 503 has been recorded by the coordinator.
C4_Witness == \E i \in Tasks : task[i].only503 /\ task[i].recorded

\* ------------------------------------------------------------ C5
\* C5 (as claimed): after a fetch that failed for good (a 4xx that is not
\* retried, a body that is not JSON) the invocation does not sleep for another
\* cycle: it has ended, in its first cycle.
C5_NoRetryOnPermanent ==
  \A i \in Tasks :
    task[i].why \in {"http4xx", "malformed"} =>
      /\ task[i].pc # "backoff"
      /\ Done(i) /\ task[i].attempt = 0

\* ------------------------------------------------------------ C6
\* C6: an invocation whose last fetch returned a non-empty mapping none of
\* whose notes gives a score returns a summary with no ratings, no statistics
\* and reviewer_count 0; once collected it is in results and its ID is not
\* in failed_papers.
EmptySummary(paper_id) ==
  [paper_id |-> paper_id, ratings |-> <<>>, min_rating |-> None, max_rating |-> None,
   avg_rating |-> None, reviewer_count |-> 0]

NoScores(i) ==
  /\ Done(i)
  /\ ~IsNone(task[i].data)
  /\ Val(task[i].data).shape = "dict"
  /\ \A k \in 1..Len(NotesOf(i)) : Unrated(NotesOf(i)[k])

C6_EmptyIsSuccess ==
  \A i \in Tasks :
    NoScores(i) =>
      /\ task[i].outcome = "summary"
      /\ task[i].result = Some(EmptySummary(paper_ids[i]))
      /\ task[i].recorded =>
           /\ \E k \in 1..Len(results) : results[k] = EmptySummary(paper_ids[i])
           /\ Count(FailedNow, paper_ids[i]) = 0

C6_Witness ==
  \E i \in Tasks : NoScores(i) /\ task[i].recorded /\ Len(NotesOf(i)) >= 1

\* ------------------------------------------------------------ C7
\* C7: in every summary with ratings, min_rating is the least and max_rating
\* the greatest rating, avg_rating is the hundredth nearest to the average,
\* reviewer_count is the number of ratings, and min <= avg <= max.
StatisticsRight(s) ==
  LET n == Len(s.ratings)
      sum == SumSeq(s.ratings)
  IN /\ ~IsNone(s.min_rating) /\ ~IsNone(s.max_rating) /\ ~IsNone(s.avg_rating)
     /\ Val(s.min_rating) \in Range(s.ratings)
     /\ \A e \in Range(s.ratings) : Val(s.min_rating) <= e
     /\ Val(s.max_rating) \in Range(s.ratings)
     /\ \A e \in Range(s.ratings) : Val(s.max_rating) >= e
     /\ 2 * Abs(100 * sum - n * Val(s.avg_rating)) <= n
     /\ s.reviewer_count = n
     /\ 100 * Val(s.min_rating) <= Val(s.avg_rating)
     /\ Val(s.avg_rating) <= 100 * Val(s.max_rating)

C7_Statistics ==
  \A i \in Tasks :
    (Summarised(i) /\ Val(task[i].result).ratings # <<>>) =>
      StatisticsRight(Val(task[i].result))

\* A summary whose average is not a whole number of hundredths.
C7_Witness ==
  \E i \in Tasks :
    /\ Summarised(i)
    /\ LET ratings == Val(task[i].result).ratings
       IN ratings # <<>> /\ (100 * SumSeq(ratings)) % Len(ratings) # 0

\* ------------------------------------------------------------ C8
\* C8: as long as the notes of a thread carry a valid structured score, the
\* k-th rating of the summary is the k-th note's structured value, whatever
\* score its free text names; a thread of such notes gives one rating each.
C8_StructuredWins ==
  \A i \in Tasks :
    Summarised(i) =>
      LET notes == NotesOf(i)
          ratings == Val(task[i].result).ratings
      IN /\ \A k \in 1..Len(notes) :
              (\A j \in 1..k : StructuredValid(notes[j])) =>
                k <= Len(ratings) /\ ratings[k] = notes[k].rating.value
         /\ (\A k \in 1..Len(notes) : StructuredValid(notes[k])) =>
              Len(ratings) = Len(notes)

\* A collected summary of a thread whose first note has a structured score
\* and a free text naming another score.
C8_Witness ==
  \E i \in Tasks :
    /\ Summarised(i) /\ task[i].recorded
    /\ NotesOf(i) # <<>>
    /\ LET note == NotesOf(i)[1]
           from_text == extract_rating_from_text(note.text)
       IN /\ StructuredValid(note)
          /\ ~IsNone(from_text)
          /\ Val(from_text) # note.rating.value

\* ------------------------------------------------------------ C9
\* C9: every rating of every summary is within 0..10, and a note whose
\* structured score is outside 0..10 adds no rating: the ratings are at most
\* as many as the other notes.
C9_RangeEnforced ==
  \A i \in Tasks :
    Summarised(i) =>
      LET notes == NotesOf(i)
          ratings == Val(task[i].result).ratings
      IN /\ \A e \in Range(ratings) : e >= 0 /\ e <= 10
         /\ Len(ratings) + Cardinality({k \in 1..Len(notes) : OutOfRange(notes[k])})
              <= Len(notes)

\* A collected summary of a thread with a note scored above 10 and one below 0.
C9_Witness ==
  \E i \in Tasks :
    /\ Summarised(i) /\ task[i].recorded
    /\ \E k \in 1..Len(NotesOf(i)) : NotesOf(i)[k].rating.value > 10
    /\ \E k \in 1..Len(NotesOf(i)) : NotesOf(i)[k].rating.value < 0

\* ------------------------------------------------------------ C10
\* C10 (as claimed): a note without a usable structured score whose free text
\* names a score N under a label pattern adds N to the ratings of the summary.
C10_TextFallback ==
  \A i \in Tasks :
    Summarised(i) =>
      \A k \in 1..Len(NotesOf(i)) :
        LET note == NotesOf(i)[k]
            from_text == PatternLoop(1, note.text)
        IN (~StructuredValid(note) /\ ~IsNone(from_text)) =>
             /\ Val(from_text) \in Range(Val(task[i].result).ratings)
             /\ Val(task[i].result).reviewer_count >= 1

\* ------------------------------------------------------------ C11
\* The label match of the text is "Rating: 0", and the text offers no other
\* score: no standalone number within 1..10 and no "/10".
LabelMatchZero(text) ==
  /\ FindAll(1, text) # <<>>
  /\ FindAll(1, text)[1] = 0
  /\ StandaloneNumbers(text) = <<>>

Unpaced == cpc = "pacing" \/ \E i \in Tasks : Done(i) /\ ~task[i].recorded

\* Every pool thread has been used, so an invocation that begins now begins
\* on a slot that a completion has freed.
AllSlotsUsed == Cardinality({i \in Tasks : task[i].starts > 0}) >= max_workers

\* C12 (as claimed): between a completion and the end of the pacing wait that
\* follows it, no invocation begins on a freed slot.
C12_PacedDispatch ==
  [][(Unpaced /\ AllSlotsUsed) =>
       \A i \in Tasks : i \in DOMAIN task' => task'[i].starts = task[i].starts]_vars

\* ------------------------------------------------------------ C13
\* C13: with a pool of two or more, whatever the fetch of the first position
\* does, stalled for good included, every other position handed to the pool
\* is completed and recorded by the as_completed loop.
C13_Isolation ==
  \A i \in 2..MaxPapers :
    (max_workers >= 2 /\ i \in Tasks /\ task[i].st \in {"queued", "running"})
      ~> (i \in Tasks /\ task[i].recorded)

\* The first position is still inside its first request while another
\* position has been recorded.
C13_Witness ==
  /\ max_workers >= 2
  /\ Len(task) >= 2
  /\ Fetching(1) /\ task[1].attempt = 0 /\ task[1].hretry = 0
  /\ task[2].recorded

\* ------------------------------------------------------------ C14
\* The positions of an ID whose future has been yielded with no result or
\* with an exception.
FailedPositions(id) ==
  {i \in Tasks : paper_ids[i] = id /\ task[i].recorded /\ task[i].outcome \in {"none", "raised"}}

\* C14: every future yielded with None or with an exception has put its ID on
\* failed_papers, once per such future; the loop then goes on (it sleeps, or
\* waits for the next future) as long as a future is left, and
\* process_papers_batch returns only when every future has been yielded.
C14_FailuresRecorded ==
  /\ \A id \in PaperIds : Count(FailedNow, id) = Cardinality(FailedPositions(id))
  /\ (\E i \in Tasks : ~task[i].recorded) => cpc \in {"submit", "collect", "pacing"}
  /\ cpc = "returned" => \A i \in Tasks : task[i].recorded

\* After the future of one position raised and was recorded, and one that
\* returned None was recorded too, the harvest has returned.
C14_Witness ==
  /\ cpc = "returned"
  /\ \E i, j \in Tasks :
       /\ task[i].outcome = "raised" /\ task[i].recorded
       /\ task[j].outcome = "none" /\ task[j].recorded
  /\ Len(FailedNow) = 2

\* ------------------------------------------------------------ C15
\* The summaries a returned list holds for an ID, and how many.
SummariesOf(rs, id) == {rs[k] : k \in {j \in 1..Len(rs) : rs[j].paper_id = id}}
SummaryCount(rs, id) == Cardinality({k \in 1..Len(rs) : rs[k].paper_id = id})

\* C15: when the second of two harvests over the same list and the same fixed
\* responses returns, it returns for every ID the same summaries, and as many,
\* as the first, whatever the order of completion was.
C15_Idempotent ==
  (cpc = "returned" /\ ~IsNone(previous)) =>
    \A id \in PaperIds :
      /\ SummariesOf(results, id) = SummariesOf(Val(previous), id)
      /\ SummaryCount(results, id) = SummaryCount(Val(previous), id)

\* Two harvests by a pool of two have returned the same two summaries in
\* different orders.
C15_Witness ==
  /\ cpc = "returned" /\ ~IsNone(previous)
  /\ max_workers = 2
  /\ Len(results) = 2
  /\ results[1].ratings # <<>>
  /\ results # Val(previous)

\* ------------------------------------------------------------ C16
\* The IDs of the summaries in the output file.
SavedIds == IF IsNone(saved) THEN {} ELSE {Val(saved)[k].paper_id : k \in 1..Len(Val(saved))}

\* C16 (as claimed): once an interrupted harvest has ended, an item that had
\* not completed when the interrupt arrived has no summary, in the list or in
\* the output file, and is accounted for as failed: its ID is among those the
\* harvest put on failed_papers.
C16_AbortAccounted ==
  (cpc = "interrupted" /\ NoDuplicates(paper_ids)) =>
    \A i \in Tasks :
      task[i].cut =>
        /\ paper_ids[i] \notin SuccessIds
        /\ paper_ids[i] \notin SavedIds
        /\ paper_ids[i] \in Range(FailedNow)

\* ------------------------------------------------------------ C17
\* The step of a run that is over at once: main is where it was before or
\* between runs, and after the step no harvest has begun.
EmptyRunStep == cpc \in {"idle", "returned"} /\ cpc' = "idle"

\* C17: no harvest is ever under way, or has returned, over an empty list;
\* the run on an empty list is the step that is over at once, which starts no
\* invocation and no fetch, writes no output file, leaves the summaries and
\* failed_papers as they were, and makes main return 1.
C17_EmptyRun ==
  /\ [](cpc \in {"submit", "collect", "pacing", "returned"} => paper_ids # <<>> /\ task # <<>>)
  /\ [][EmptyRunStep =>
          /\ UNCHANGED <<task, worker, submitted, saved, results, failed_papers>>
          /\ exit_status' = Some(1)]_vars

\* A run on an empty list has just ended after an earlier harvest that left
\* an output file and a failure.
C17_Witness ==
  /\ cpc = "idle"
  /\ exit_status = Some(1)
  /\ ~IsNone(saved)
  /\ failed_papers # <<>>

\* ------------------------------------------------------------ C18
\* Both statistics are numbers and both reach their threshold.
Eligible(paper, call) ==
  /\ paper.avg_rating.kind = "num" /\ paper.min_rating.kind = "num"
  /\ paper.avg_rating.value >= call.min_avg_rating
  /\ paper.min_rating.value >= call.min_min_rating

\* C18: the list returned holds every eligible paper of the input as often
\* as the input does and no other paper, a paper with a null or missing
\* statistic in particular never, whatever the thresholds; and it is in
\* descending order of avg_rating.
C18_FilterAndSort ==
  (~IsNone(arg) /\ ~IsNone(ret)) =>
    LET call == Val(arg)
        out == Val(ret)
    IN /\ \A paper \in PaperSamples :
            Count(out, paper) = IF Eligible(paper, call) THEN Count(call.papers_data, paper) ELSE 0
       /\ \A k \in 1..Len(out) : out[k] \in PaperSamples /\ out[k].avg_rating.kind = "num"
       /\ \A k \in 1..(Len(out) - 1) : out[k].avg_rating.value >= out[k + 1].avg_rating.value

\* With both thresholds at 0, a paper with null statistics was left out and
\* two papers given in ascending order came back in descending order.
C18_Witness ==
  /\ ~IsNone(arg) /\ ~IsNone(ret)
  /\ Val(arg).min_avg_rating = 0
  /\ Val(arg).papers_data =
       << Paper("a", Entry("num", 650), Entry("num", 6)),
          Paper("e", Entry("null", 0), Entry("null", 0)),
          Paper("b", Entry("num", 725), Entry("num", 5)) >>
  /\ Val(ret) =
       << Paper("b", Entry("num", 725), Entry("num", 5)),
          Paper("a", Entry("num", 650), Entry("num", 6)) >>

\* ------------------------------------------------------------ C19
\* The invocation is in one of its max_retries cycles, sleeps only when a
\* cycle is still to come, and has ended with a summary or without one.
CyclesBounded ==
  \A i \in Tasks :
    /\ task[i].attempt >= 0 /\ task[i].attempt + 1 <= 3
    /\ task[i].pc = "backoff" => task[i].attempt + 1 < 3
    /\ Done(i) =>
         /\ task[i].outcome \in {"summary", "none", "raised"}
         /\ (task[i].outcome = "summary") = ~IsNone(task[i].result)

\* A new cycle begins only out of the backoff sleep that follows the cycle
\* before it, which ended with its session.get over.
CyclesSequential ==
  \A i \in Tasks :
    (i \in DOMAIN task' /\ task'[i].attempt # task[i].attempt) =>
      /\ task[i].pc = "backoff" /\ task[i].hretry = 0
      /\ task'[i].attempt = task[i].attempt + 1
      /\ task'[i].pc = "fetch"

\* C19: process_single_paper runs at most 3 fetch cycles, one after another,
\* sleeping between cycles only, and once begun it always ends, with a
\* summary or with a failure.
C19_BoundedCycles ==
  /\ []CyclesBounded
  /\ [][CyclesSequential]_vars
  /\ (1 \in Tasks /\ task[1].st = "running") ~> (1 \in Tasks /\ Done(1))

\* An invocation has ended without a summary after its third cycle.
C19_Witness ==
  \E i \in Tasks : Done(i) /\ task[i].attempt = 2 /\ task[i].outcome = "none"

\* ------------------------------------------------------------ C20
\* C20 (as claimed): once the fetch has returned a usable payload and the
\* extraction has begun, the item never goes back to fetching: an error raised
\* while extracting is not followed by the sleep before another fetch cycle.
C20_NoRefetchAfterExtraction ==
  \A i \in Tasks : task[i].why = "raised" => task[i].pc # "backoff"

\* Where a cycle whose extraction raised leaves the invocation: asleep before
\* the next fetch cycle if one is left, ended with None after the last one,
\* or ended by the exception.
AfterExtractionError(t) ==
  \/ t.st = "running" /\ t.pc = "backoff" /\ t.attempt < 2
  \/ t.st = "done" /\ t.outcome = "none" /\ t.attempt = 2
  \/ t.st = "done" /\ t.outcome = "raised"

\* C20 (amended): the item goes from fetching to Done through the extraction,
\* with two retry edges back to fetching, one from a failed fetch and one
\* from an extraction that raised: such a cycle is retried like a failed
\* fetch, after a backoff sleep, unless it was the third.  Only a summary
\* comes of an extraction that did not raise, the sleep always leads to the
\* next fetch cycle, and Done is final.
C20_RetryEdges ==
  /\ [](\A i \in Tasks :
          /\ task[i].why = "raised" =>
               /\ ~IsNone(task[i].data) /\ ExtractRaises(Val(task[i].data))
               /\ AfterExtractionError(task[i])
          /\ Summarised(i) => ~Falsy(task[i].data) /\ ~ExtractRaises(Val(task[i].data)))
  /\ [][\A i \in Tasks :
          i \in DOMAIN task' =>
            /\ (task[i].pc = "backoff" /\ task'[i] # task[i]) =>
                 task'[i].pc = "fetch" /\ task'[i].attempt = task[i].attempt + 1
            /\ Done(i) => task'[i].st = "done" /\ task'[i].outcome = task[i].outcome]_vars

\* The second cycle of an invocation has ended with the extraction raising,
\* and the invocation sleeps before its third fetch.
C20_Witness ==
  \E i \in Tasks :
    task[i].why = "raised" /\ task[i].pc = "backoff" /\ task[i].attempt = 1

\* ------------------------------------------------------------ C21
\* The patterns that match the text, and the first of them in list order.
Matching(text) == {p \in RATING_PATTERNS : FindAll(p, text) # <<>>}
FirstMatching(text) == CHOOSE p \in Matching(text) : \A q \in Matching(text) : p <= q

InTextRange(n) == n >= 1 /\ n <= 10

\* C21 (as claimed): when some pattern matches the text, the score is the
\* first capture of the first matching pattern if that lies within 1..10 and
\* none otherwise: no later pattern and no later match gives a score.
C21_FirstPatternOnly ==
  (~IsNone(arg) /\ ~IsNone(ret) /\ Matching(Val(arg).text) # {}) =>
    LET text == Val(arg).text
        first == FindAll(FirstMatching(text), text)[1]
    IN Val(ret).from_text = IF InTextRange(first) THEN Some(first) ELSE None

\* ------------------------------------------------------------ C22
\* C22 (as claimed): the last-resort rule gives the text's only standalone
\* number within 1..10 when no pattern matched the text, gives nothing when
\* there are two or more, and gives nothing when a pattern matched, with
\* captures out of range included.
C22_LastResort ==
  (~IsNone(arg) /\ ~IsNone(ret)) =>
    LET text == Val(arg).text
        numbers == StandaloneNumbers(text)
        out == Val(ret).from_text
    IN /\ (Matching(text) = {} /\ Len(numbers) = 1) => out = Some(numbers[1])
       /\ (Matching(text) = {} /\ Len(numbers) # 1) => IsNone(out)
       /\ (Matching(text) # {} /\
             \A p \in Matching(text) : ~InTextRange(FindAll(p, text)[1])) => IsNone(out)

\* ------------------------------------------------------------ C23
\* The number of HTTP attempts logged for position i.
Https(i, log) == IF i \in DOMAIN log THEN log[i].https ELSE 0

\* This step is an HTTP attempt of position i.
Answered(i) == i \in DOMAIN wire' /\ Https(i, wire') = Https(i, wire) + 1

\* The attempt this step answers is retried by urllib3, inside session.get.
RetriedInside(i) ==
  /\ task'[i].hretry = task[i].hretry + 1
  /\ task'[i].st = "running" /\ task'[i].pc = "fetch"
  /\ task'[i].attempt = task[i].attempt

ServerError(s) == s >= 500 /\ s <= 599
ClientError(s) == s >= 400 /\ s <= 499

Recorded == {i \in Tasks : task[i].recorded}

\* This step appends the record of position i, and nothing else happens in it:
\* it is a step of the thread that runs the as_completed loop, which goes on to
\* its pacing sleep, no pool thread moves, exactly one of the two collections
\* grows, by one element, and position i alone becomes recorded.
RecordsAlone(i) ==
  /\ cpc = "collect" /\ cpc' = "pacing"
  /\ task[i].st = "done" /\ ~task[i].recorded
  /\ task' = [task EXCEPT ![i].recorded = TRUE]
  /\ worker' = worker
  /\ \/ /\ Len(results') = Len(results) + 1
        /\ SubSeq(results', 1, Len(results)) = results
        /\ results'[Len(results')].paper_id = paper_ids[i]
        /\ failed_papers' = failed_papers
     \/ /\ failed_papers' = Append(failed_papers, paper_ids[i])
        /\ results' = results

\* This step is run() calling process_papers_batch, which begins with a new,
\* empty result list.
NewCall == cpc' = "submit" /\ cpc \in {"idle", "returned"} /\ results' = <<>>

SerializedStep ==
  /\ (results' # results \/ failed_papers' # failed_papers) =>
       \/ NewCall /\ failed_papers' = failed_papers
       \/ \E i \in Tasks : RecordsAlone(i)
  /\ \A i \in Tasks :
       (i \in DOMAIN task' /\ ~NewCall /\ task'[i].recorded # task[i].recorded) =>
         RecordsAlone(i)

\* C24: results and failed_papers are changed by one thread at a time: every
\* change is one append made by the as_completed loop for one finished future,
\* which in that step, and in no other, passes from not recorded to recorded;
\* the records of a harvest are as many as its recorded futures.
C24_SerializedRecording ==
  /\ [](Len(results) + Len(failed_papers) - failed_before = Cardinality(Recorded))
  /\ [][SerializedStep]_vars

\* Two futures had completed while neither was recorded, and one of them has
\* now been recorded while the other still waits for the loop.
C24_Witness ==
  \E i, j \in Tasks :
    /\ i # j
    /\ task[i].recorded
    /\ task[j].st = "done" /\ ~task[j].recorded
    /\ cpc = "pacing"

\* ------------------------------------------------------------ C25
\* A note carries a valid structured score: its rating field is an integer,
\* bare or under "value", within [0,10].
UsableScore(note) ==
  /\ note.rating.kind \in {"int", "dict"}
  /\ note.rating.value >= 0
  /\ note.rating.value <= 10

\* The positions, in the response, of the notes with a valid structured score,
\* and the n-th of them in arrival order.
UsableAt(notes) == {k \in 1..Len(notes) : UsableScore(notes[k])}
NthOf(S, n) == CHOOSE k \in S : Cardinality({j \in S : j < k}) = n - 1

\* The positions whose invocation has ended with a summary.
WithSummary == {i \in Tasks : Summarised(i)}

\* C25: the ratings of a summary are the valid structured scores of the notes
\* of the response, in the order of the notes and one per note at most: the
\* n-th rating is the score of the n-th note that has one, so reviewer_count is
\* the number of such notes, never above the number of notes, and a note
\* without a usable score changes nothing for the others.
C25_ArrivalOrder ==
  \A i \in WithSummary :
    LET notes == NotesOf(i)
        info == Val(task[i].result)
    IN /\ Len(info.ratings) = Cardinality(UsableAt(notes))
       /\ \A n \in 1..Len(info.ratings) :
            info.ratings[n] = notes[NthOf(UsableAt(notes), n)].rating.value
       /\ info.reviewer_count = Len(info.ratings)
       /\ info.reviewer_count <= Len(notes)

\* A summary built from three notes of which the first and the last carry
\* different valid scores and the one between them carries none.
C25_Witness ==
  \E i \in WithSummary :
    LET notes == NotesOf(i)
    IN /\ Len(notes) = 3
       /\ UsableAt(notes) = {1, 3}
       /\ notes[1].rating.value # notes[3].rating.value
       /\ Val(task[i].result).ratings = <<notes[1].rating.value, notes[3].rating.value>>

\* ------------------------------------------------------------ C26
\* The HTTP attempts of a position stay within what its cycles allow: each
\* cycle makes one attempt and up to 3 retries of it.
AttemptsBounded ==
  \A i \in Tasks :
    /\ task[i].hretry >= 0 /\ task[i].hretry <= 3
    /\ Https(i, wire) <= 4 * (task[i].attempt + 1)
    /\ Https(i, wire) <= 12
    /\ ~Fetching(i) => task[i].hretry = 0

\* A cycle begins with the retry counter of the connection layer at zero, and
\* only once the session.get of the cycle before it is over.
FreshCounter ==
  \A i \in Tasks :
    (i \in DOMAIN task' /\ task'[i].st = "running" /\
       (task[i].st # "running" \/ task'[i].attempt # task[i].attempt)) =>
      /\ ~Fetching(i)
      /\ task'[i].hretry = 0
      /\ Https(i, wire') = Https(i, wire)

\* C26: one item causes at most 3 x (1 + 3) = 12 HTTP attempts; the retries
\* of the connection layer are counted from zero in every cycle, and a cycle
\* begins only after the connection layer has returned or given up.
C26_TwelveAttempts ==
  /\ []AttemptsBounded
  /\ [][FreshCounter]_vars

\* An item has used all 12 attempts: the fourth attempt of its third cycle
\* has been answered and the invocation has ended without a summary.
C26_Witness ==
  \E i \in Tasks :
    Https(i, wire) = 12 /\ Done(i) /\ task[i].attempt = 2 /\ task[i].outcome = "none"

\* ------------------------------------------------------------ C27
\* s is the beginning of t.
IsPrefix(s, t) == Len(s) <= Len(t) /\ SubSeq(t, 1, Len(s)) = s

\* failed_papers only grows, a call of process_papers_batch included, while
\* that call starts results empty.
FailuresKept ==
  /\ IsPrefix(failed_papers, failed_papers')
  /\ Len(failed_papers') <= Len(failed_papers) + 1
  /\ NewCall => failed_papers' = failed_papers /\ failed_before' = Len(failed_papers)

\* C27: failed_papers lives as long as the crawler and is never emptied,
\* while results is new in every call: failed_papers is the failures of the
\* earlier calls followed by those of the current one, so when a harvest
\* returns, the two collections together hold the records of its list plus
\* every failure of the calls before it.
C27_FailuresAccumulate ==
  /\ [](failed_before <= Len(failed_papers))
  /\ [](cpc = "returned" =>
          Len(results) + Len(failed_papers) = Len(paper_ids) + failed_before)
  /\ [][FailuresKept]_vars

\* A second harvest has returned with more on failed_papers than it failed
\* itself, and with more records in the two collections than its list has IDs.
C27_Witness ==
  /\ cpc = "returned"
  /\ ~IsNone(previous)
  /\ Len(failed_papers) > Len(FailedNow)
  /\ Len(results) + Len(failed_papers) > Len(paper_ids)

\* ------------------------------------------------------------ C28
\* The last fetch of position i returned a body decoded to an empty value,
\* {} or []; it returned a non-empty mapping whose "notes" is absent or empty.
GotEmptyValue(i) == ~IsNone(task[i].data) /\ Val(task[i].data).shape = "empty"
GotNoNotes(i) ==
  /\ ~IsNone(task[i].data)
  /\ Val(task[i].data).shape = "dict"
  /\ (~Val(task[i].data).has_notes \/ Val(task[i].data).notes = <<>>)

\* C28: a 200 whose body decodes to an empty value is handled as a failed
\* fetch: the cycle ends in the backoff sleep before another fetch, or, being
\* the third, ends the invocation without a summary and the ID goes to
\* failed_papers; a 200 with a non-empty body that has no notes ends the
\* invocation at once with a summary of no rating, which goes to results.
C28_EmptinessBoundary ==
  \A i \in Tasks :
    /\ GotEmptyValue(i) =>
         /\ task[i].why = "empty"
         /\ \/ task[i].st = "running" /\ task[i].pc = "backoff" /\ task[i].attempt < 2
            \/ Done(i) /\ task[i].attempt = 2 /\ task[i].outcome = "none"
         /\ IsNone(task[i].result)
         /\ task[i].recorded =>
              paper_ids[i] \in Range(FailedNow) /\ paper_ids[i] \notin SuccessIds
    /\ GotNoNotes(i) =>
         /\ Done(i) /\ task[i].outcome = "summary"
         /\ Val(task[i].result).ratings = <<>>
         /\ Val(task[i].result).reviewer_count = 0
         /\ IsNone(Val(task[i].result).avg_rating)
         /\ task[i].recorded =>
              paper_ids[i] \in SuccessIds /\ paper_ids[i] \notin Range(FailedNow)

\* Three fetches in a row returned an empty value and the harvest has
\* returned with the item on failed_papers.
C28_Witness ==
  /\ cpc = "returned"
  /\ \E i \in Tasks : GotEmptyValue(i) /\ task[i].attempt = 2 /\ task[i].recorded
  /\ results = <<>>
  /\ Len(FailedNow) = 1

\* ------------------------------------------------------------ C29
\* Nothing is in flight or pending: every future has run to its end and has
\* been handled by the as_completed loop, and every pool thread is free.
NothingLeft ==
  /\ \A i \in Tasks : Done(i) /\ task[i].recorded
  /\ \A w \in Workers : worker[w] = 0
  /\ Len(results) + Len(FailedNow) = Len(paper_ids)

\* C29: if every HTTP attempt is answered in the end, process_papers_batch,
\* once called, returns, and when it has returned every submitted task has
\* completed and been recorded and no pool thread is busy.
C29_HarvestTerminates ==
  /\ (cpc = "submit") ~> (cpc = "returned")
  /\ [](cpc = "returned" => NothingLeft)

\* The harvest of a list longer than the pool has returned after one of its
\* items went through all three cycles.
C29_Witness ==
  /\ cpc = "returned"
  /\ Len(paper_ids) > max_workers
  /\ \E i \in Tasks : task[i].attempt = 2
  /\ NothingLeft

====
